---- MODULE Spec2Model ----
(***************************************************************************)
(* RBParameters (include/reduced_basis/rb_parameters.h): a container of    *)
(* named Real parameters kept in two std::map<std::string, Real> members,  *)
(* _parameters and _extra_parameters.                                      *)
(*                                                                         *)
(* A std::map is modelled as what it is: a sequence of (first, second)     *)
(* pairs kept in strictly ascending key order, searched by lower_bound.    *)
(* A std::string is a sequence of character codes compared                 *)
(* lexicographically.  Real is a floating-point type: its values include   *)
(* NaN, which operator== of Real never finds equal to anything.            *)
(* The constructors, assignments and destructor declared "= default" are   *)
(* member-wise; the header declares the other member functions, whose      *)
(* bodies are modelled from the documented contract of each declaration.   *)
(***************************************************************************)
EXTENDS Integers, Sequences, FiniteSets

VARIABLES
  _parameters,           \* std::map<std::string, Real> of *this
  _extra_parameters,     \* std::map<std::string, Real> of *this
  rhs_parameters,        \* _parameters of a second instance (operand of ==)
  rhs_extra_parameters,  \* _extra_parameters of the second instance
  call,                  \* the member call that has just returned, or NoCall
  history,               \* whether the three history variables below are kept
  set_names,             \* history: names set by set_value and not since removed
  live_parameters,       \* history: name -> value last given to it (by a constructor,
                         \*   an assignment or set_value) and not since removed
  live_extra_parameters  \* history: as live_parameters, for the extra parameters

vars == <<_parameters, _extra_parameters, rhs_parameters, rhs_extra_parameters,
          call, history, set_names, live_parameters, live_extra_parameters>>

-----------------------------------------------------------------------------
(* Bounds and input domains *)

\* Ordinary Real values are drawn from 0..MaxVal.
MaxVal == 1

\* The Real value NaN (any code outside 0..MaxVal would do).
NaN == -1

\* Parameter names: the strings "a", "aa", "b" as character-code sequences
\* ("a" is a proper prefix of "aa"; "aa" and "b" differ at the first char).
Names == {<<1>>, <<1, 1>>, <<2>>}

\* The names extra values are set under: "a", also a parameter name, and "aa".
ExtraNames == {<<1>>, <<1, 1>>}

\* The names under which the source of a copy or a move holds parameters
\* and extra parameters.
SourceNames == {<<2>>}
SourceExtraNames == {<<1>>}

\* With two instances: the names set on the second instance, and the names
\* extra values are set under on either.
RhsNames == {<<1>>, <<2>>}
EqExtraNames == {<<1>>}

Values == (0..MaxVal) \cup {NaN}

\* Marks "no value" in a history variable; lies outside Values.
NotSet == MaxVal + 1

-----------------------------------------------------------------------------
(* std::string ordering and std::map<std::string, Real> *)

\* std::string operator<: lexicographic, a proper prefix is smaller.
RECURSIVE LexLess(_, _)
LexLess(s, t) ==
  IF t = <<>> THEN FALSE
  ELSE IF s = <<>> THEN TRUE
  ELSE IF Head(s) < Head(t) THEN TRUE
  ELSE IF Head(t) < Head(s) THEN FALSE
  ELSE LexLess(Tail(s), Tail(t))

\* A mis-ordering comparison: compares lengths first.
LexLessByLength(s, t) ==
  \/ Len(s) < Len(t)
  \/ Len(s) = Len(t) /\ LexLess(s, t)

\* A comparator that is not strict: <= in place of <.
LexLessOrEqual(s, t) == s = t \/ LexLess(s, t)

\* The key comparison of the map: std::less<std::string>.
KeyLess(s, t) == LexLess(s, t)

\* std::map::lower_bound: position of the first element whose key is not
\* less than k; Len(m) + 1 stands for end().
RECURSIVE LowerBoundFrom(_, _, _)
LowerBoundFrom(m, k, i) ==
  IF i > Len(m) THEN i
  ELSE IF KeyLess(m[i].first, k) THEN LowerBoundFrom(m, k, i + 1)
  ELSE i

LowerBound(m, k) == LowerBoundFrom(m, k, 1)

\* A find that does not compare the key it lands on.
MapFindNoKeyCheck(m, k) ==
  LET i == LowerBound(m, k) IN IF i <= Len(m) THEN i ELSE 0

\* A find that takes the last element for end().
MapFindNotLast(m, k) ==
  LET i == LowerBound(m, k)
  IN  IF i < Len(m) /\ ~KeyLess(k, m[i].first) THEN i ELSE 0

\* std::map::find: position of the element with key k; 0 stands for end().
MapFind(m, k) ==
  LET i == LowerBound(m, k)
  IN  IF i <= Len(m) /\ ~KeyLess(k, m[i].first) THEN i ELSE 0

\* A count that takes lower_bound() != end() for presence.
MapCountByLowerBound(m, k) == IF LowerBound(m, k) <= Len(m) THEN 1 ELSE 0

\* std::map::count
MapCount(m, k) == IF MapFind(m, k) # 0 THEN 1 ELSE 0

\* std::map::size
MapSize(m) == Len(m)

\* std::map::insert semantics: an existing element is left as it is.
MapInsertOnly(m, k, v) ==
  LET i == LowerBound(m, k)
  IN  IF i <= Len(m) /\ ~KeyLess(k, m[i].first)
      THEN m
      ELSE SubSeq(m, 1, i - 1) \o <<[first |-> k, second |-> v]>>
             \o SubSeq(m, i, Len(m))

\* multimap semantics: a new element is inserted even when the key exists.
MapInsertDuplicate(m, k, v) ==
  LET i == LowerBound(m, k)
  IN  SubSeq(m, 1, i - 1) \o <<[first |-> k, second |-> v]>> \o SubSeq(m, i, Len(m))

\* m[k] = v: operator[] finds or inserts the element at its ordered
\* position, then the value is assigned.
MapSubscriptAssign(m, k, v) ==
  LET i == LowerBound(m, k)
  IN  IF i <= Len(m) /\ ~KeyLess(k, m[i].first)
      THEN [m EXCEPT ![i].second = v]
      ELSE SubSeq(m, 1, i - 1) \o <<[first |-> k, second |-> v]>>
             \o SubSeq(m, i, Len(m))

\* An erase that removes the element at lower_bound whatever its key.
MapEraseAtLowerBound(m, k) ==
  LET i == LowerBound(m, k)
  IN  IF i <= Len(m) THEN SubSeq(m, 1, i - 1) \o SubSeq(m, i + 1, Len(m)) ELSE m

\* std::map::erase(key): removes the element with key k if there is one.
MapErase(m, k) ==
  LET i == MapFind(m, k)
  IN  IF i = 0 THEN m ELSE SubSeq(m, 1, i - 1) \o SubSeq(m, i + 1, Len(m))

\* operator== of Real (IEEE 754): NaN equals nothing, itself included.
RealEq(x, y) == x # NaN /\ y # NaN /\ x = y

\* A comparison of the keys only.
MapEqualKeysOnly(m1, m2) ==
  /\ Len(m1) = Len(m2)
  /\ \A i \in 1..Len(m1) : m1[i].first = m2[i].first

\* std::map operator==: same size and pairwise equal elements in order.
MapEqual(m1, m2) ==
  /\ Len(m1) = Len(m2)
  /\ \A i \in 1..Len(m1) :
       m1[i].first = m2[i].first /\ RealEq(m1[i].second, m2[i].second)

\* Traversal from begin() to end(): the elements in the order ++it visits.
RECURSIVE MapTraverse(_, _)
MapTraverse(m, i) ==
  IF i > Len(m) THEN <<>> ELSE <<m[i]>> \o MapTraverse(m, i + 1)

\* Every std::map<std::string, Real> over Names and Values, built by
\* inserting: the values a caller can pass to the converting constructor.
RECURSIVE MapsOver(_)
MapsOver(S) ==
  IF S = {} THEN {<<>>}
  ELSE LET k == CHOOSE x \in S : TRUE
           rest == MapsOver(S \ {k})
       IN  rest \cup {MapSubscriptAssign(m, k, v) : m \in rest, v \in Values}

AllMaps == MapsOver(Names)

\* The maps of the source of a copy or a move.
SourceMaps == MapsOver(SourceNames)
SourceExtraMaps == MapsOver(SourceExtraNames)

-----------------------------------------------------------------------------
(* The record of a returned call *)

NoName == <<>>

Returned(op, name, val, ret, flag, threw, items) ==
  [op |-> op, name |-> name, val |-> val, ret |-> ret, flag |-> flag,
   threw |-> threw, items |-> items]

NoCall == Returned("none", NoName, 0, 0, FALSE, FALSE, <<>>)

-----------------------------------------------------------------------------
(* History *)

EmptyLog == [n \in Names |-> NotSet]

\* The log that says what map m holds.
LogOf(m) ==
  [n \in Names |->
     IF \E i \in 1..Len(m) : m[i].first = n
     THEN m[CHOOSE i \in 1..Len(m) : m[i].first = n].second
     ELSE NotSet]

\* A history variable takes its new value only where history is kept.
Logged(old, new) == IF history THEN new ELSE old

LogFrame == UNCHANGED <<history, set_names, live_parameters, live_extra_parameters>>

-----------------------------------------------------------------------------
(* Construction *)

\* RBParameters() = default
DefaultConstructed ==
  /\ _parameters = <<>>
  /\ _extra_parameters = <<>>
  /\ call = Returned("RBParameters()", NoName, 0, 0, FALSE, FALSE, <<>>)

\* RBParameters(const std::map<std::string, Real> & parameter_map)
ConstructedFrom(parameter_map) ==
  /\ _parameters = parameter_map
  /\ _extra_parameters = <<>>
  /\ call = Returned("RBParameters(map)", NoName, 0, 0, FALSE, FALSE, parameter_map)

\* RBParameters(const RBParameters &) = default: member-wise copy of the
\* instance whose maps are other_parameters and other_extra_parameters.
CopyConstructed(other_parameters, other_extra_parameters) ==
  /\ _parameters = other_parameters
  /\ _extra_parameters = other_extra_parameters
  /\ call = Returned("RBParameters(copy)", NoName, 0, 0, FALSE, FALSE, other_parameters)

\* RBParameters(RBParameters &&) = default: member-wise move; the new
\* instance takes the elements of both maps.
MoveConstructed(other_parameters, other_extra_parameters) ==
  /\ _parameters = other_parameters
  /\ _extra_parameters = other_extra_parameters
  /\ call = Returned("RBParameters(move)", NoName, 0, 0, FALSE, FALSE, other_parameters)

Init ==
  /\ \/ DefaultConstructed
     \/ \E parameter_map \in AllMaps : ConstructedFrom(parameter_map)
     \/ \E other_parameters \in SourceMaps, other_extra_parameters \in SourceExtraMaps :
          CopyConstructed(other_parameters, other_extra_parameters)
     \/ \E other_parameters \in SourceMaps, other_extra_parameters \in SourceExtraMaps :
          MoveConstructed(other_parameters, other_extra_parameters)
  /\ rhs_parameters = <<>>
  /\ rhs_extra_parameters = <<>>
  /\ history = TRUE
  /\ set_names = {}
  /\ live_parameters = LogOf(_parameters)
  /\ live_extra_parameters = LogOf(_extra_parameters)

-----------------------------------------------------------------------------
(* const member functions: what they return in the current state *)

has_value(param_name) == MapCount(_parameters, param_name) # 0

has_extra_value(param_name) == MapCount(_extra_parameters, param_name) # 0

\* The strict lookup throws when find() returns end().
get_value_throws(param_name) == MapFind(_parameters, param_name) = 0

get_value(param_name) ==
  _parameters[MapFind(_parameters, param_name)].second

get_value_or(param_name, default_val) ==
  LET it == MapFind(_parameters, param_name)
  IN  IF it # 0 THEN _parameters[it].second ELSE default_val

get_extra_value_throws(param_name) == MapFind(_extra_parameters, param_name) = 0

get_extra_value(param_name) ==
  _extra_parameters[MapFind(_extra_parameters, param_name)].second

get_extra_value_or(param_name, default_val) ==
  LET it == MapFind(_extra_parameters, param_name)
  IN  IF it # 0 THEN _extra_parameters[it].second ELSE default_val

n_parameters == MapSize(_parameters)

\* *this == rhs
operator_eq == MapEqual(_parameters, rhs_parameters)

\* *this != rhs
operator_ne == ~operator_eq

-----------------------------------------------------------------------------
(* Member calls on *this.  A call is made when no returned call is pending *)

Idle == call = NoCall

ThisFrame == UNCHANGED <<_parameters, _extra_parameters>>
RhsFrame == UNCHANGED <<rhs_parameters, rhs_extra_parameters>>

\* The caller consumes the returned value.
Return ==
  /\ ~Idle
  /\ call' = NoCall
  /\ ThisFrame /\ RhsFrame /\ LogFrame

\* A clear that forgets the extra parameters.
clear_primary_only ==
  /\ Idle
  /\ _parameters' = <<>>
  /\ call' = Returned("clear", NoName, 0, 0, FALSE, FALSE, <<>>)
  /\ set_names' = Logged(set_names, {})
  /\ live_parameters' = Logged(live_parameters, EmptyLog)
  /\ UNCHANGED <<_extra_parameters, live_extra_parameters, history>>
  /\ RhsFrame

clear ==
  /\ Idle
  /\ _parameters' = <<>>
  /\ _extra_parameters' = <<>>
  /\ call' = Returned("clear", NoName, 0, 0, FALSE, FALSE, <<>>)
  /\ set_names' = Logged(set_names, {})
  /\ live_parameters' = Logged(live_parameters, EmptyLog)
  /\ live_extra_parameters' = Logged(live_extra_parameters, EmptyLog)
  /\ UNCHANGED history
  /\ RhsFrame

call_has_value(param_name) ==
  /\ Idle
  /\ call' = Returned("has_value", param_name, 0, 0, has_value(param_name), FALSE, <<>>)
  /\ ThisFrame /\ RhsFrame /\ LogFrame

call_has_extra_value(param_name) ==
  /\ Idle
  /\ call' = Returned("has_extra_value", param_name, 0, 0,
                      has_extra_value(param_name), FALSE, <<>>)
  /\ ThisFrame /\ RhsFrame /\ LogFrame

call_get_value(param_name) ==
  /\ Idle
  /\ call' = IF get_value_throws(param_name)
             THEN Returned("get_value", param_name, 0, 0, FALSE, TRUE, <<>>)
             ELSE Returned("get_value", param_name, 0, get_value(param_name),
                           FALSE, FALSE, <<>>)
  /\ ThisFrame /\ RhsFrame /\ LogFrame

call_get_value_or(param_name, default_val) ==
  /\ Idle
  /\ call' = Returned("get_value(default)", param_name, default_val,
                      get_value_or(param_name, default_val), FALSE, FALSE, <<>>)
  /\ ThisFrame /\ RhsFrame /\ LogFrame

set_value(param_name, value) ==
  /\ Idle
  /\ _parameters' = MapSubscriptAssign(_parameters, param_name, value)
  /\ call' = Returned("set_value", param_name, value, 0, FALSE, FALSE, <<>>)
  /\ set_names' = Logged(set_names, set_names \cup {param_name})
  /\ live_parameters' =
       Logged(live_parameters, [live_parameters EXCEPT ![param_name] = value])
  /\ UNCHANGED <<_extra_parameters, live_extra_parameters, history>>
  /\ RhsFrame

call_get_extra_value(param_name) ==
  /\ Idle
  /\ call' = IF get_extra_value_throws(param_name)
             THEN Returned("get_extra_value", param_name, 0, 0, FALSE, TRUE, <<>>)
             ELSE Returned("get_extra_value", param_name, 0,
                           get_extra_value(param_name), FALSE, FALSE, <<>>)
  /\ ThisFrame /\ RhsFrame /\ LogFrame

call_get_extra_value_or(param_name, default_val) ==
  /\ Idle
  /\ call' = Returned("get_extra_value(default)", param_name, default_val,
                      get_extra_value_or(param_name, default_val), FALSE, FALSE, <<>>)
  /\ ThisFrame /\ RhsFrame /\ LogFrame

set_extra_value(param_name, value) ==
  /\ Idle
  /\ _extra_parameters' = MapSubscriptAssign(_extra_parameters, param_name, value)
  /\ call' = Returned("set_extra_value", param_name, value, 0, FALSE, FALSE, <<>>)
  /\ live_extra_parameters' =
       Logged(live_extra_parameters,
              [live_extra_parameters EXCEPT ![param_name] = value])
  /\ UNCHANGED <<_parameters, set_names, live_parameters, history>>
  /\ RhsFrame

call_n_parameters ==
  /\ Idle
  /\ call' = Returned("n_parameters", NoName, 0, n_parameters, FALSE, FALSE, <<>>)
  /\ ThisFrame /\ RhsFrame /\ LogFrame

erase_parameter(param_name) ==
  /\ Idle
  /\ _parameters' = MapErase(_parameters, param_name)
  /\ call' = Returned("erase_parameter", param_name, 0,
                      MapSize(_parameters) - MapSize(_parameters'), FALSE, FALSE, <<>>)
  /\ set_names' = Logged(set_names, set_names \ {param_name})
  /\ live_parameters' =
       Logged(live_parameters, [live_parameters EXCEPT ![param_name] = NotSet])
  /\ UNCHANGED <<_extra_parameters, live_extra_parameters, history>>
  /\ RhsFrame

erase_extra_parameter(param_name) ==
  /\ Idle
  /\ _extra_parameters' = MapErase(_extra_parameters, param_name)
  /\ call' = Returned("erase_extra_parameter", param_name, 0,
                      MapSize(_extra_parameters) - MapSize(_extra_parameters'),
                      FALSE, FALSE, <<>>)
  /\ live_extra_parameters' =
       Logged(live_extra_parameters,
              [live_extra_parameters EXCEPT ![param_name] = NotSet])
  /\ UNCHANGED <<_parameters, set_names, live_parameters, history>>
  /\ RhsFrame

\* for (it = begin(); it != end(); ++it)
iterate ==
  /\ Idle
  /\ call' = Returned("begin..end", NoName, 0, 0, FALSE, FALSE,
                      MapTraverse(_parameters, 1))
  /\ ThisFrame /\ RhsFrame /\ LogFrame

\* for (it = extra_begin(); it != extra_end(); ++it)
iterate_extra ==
  /\ Idle
  /\ call' = Returned("extra_begin..extra_end", NoName, 0, 0, FALSE, FALSE,
                      MapTraverse(_extra_parameters, 1))
  /\ ThisFrame /\ RhsFrame /\ LogFrame

-----------------------------------------------------------------------------
(* The defaulted assignments and moves.  They are member-wise: both maps   *)
(* of the target are replaced by those of the source.  A std::map that has *)
(* been moved from is left without elements.                               *)

\* *this receives both maps of the source.
TakeOver(op, other_parameters, other_extra_parameters) ==
  /\ _parameters' = other_parameters
  /\ _extra_parameters' = other_extra_parameters
  /\ call' = Returned(op, NoName, 0, 0, FALSE, FALSE, other_parameters)
  /\ set_names' = Logged(set_names, {})
  /\ live_parameters' = Logged(live_parameters, LogOf(other_parameters))
  /\ live_extra_parameters' =
       Logged(live_extra_parameters, LogOf(other_extra_parameters))
  /\ UNCHANGED history

\* *this is the source of a move: both of its maps are left empty.
GiveUp(op) ==
  /\ _parameters' = <<>>
  /\ _extra_parameters' = <<>>
  /\ call' = Returned(op, NoName, 0, 0, FALSE, FALSE, _parameters)
  /\ set_names' = Logged(set_names, {})
  /\ live_parameters' = Logged(live_parameters, EmptyLog)
  /\ live_extra_parameters' = Logged(live_extra_parameters, EmptyLog)
  /\ UNCHANGED history

\* *this = other   (RBParameters & operator= (const RBParameters &) = default)
copy_assign(other_parameters, other_extra_parameters) ==
  /\ Idle
  /\ TakeOver("operator=(copy)", other_parameters, other_extra_parameters)
  /\ RhsFrame

\* *this = std::move(other)   (RBParameters & operator= (RBParameters &&) = default),
\* other being an instance that is not looked at again.
move_assign(other_parameters, other_extra_parameters) ==
  /\ Idle
  /\ TakeOver("operator=(move)", other_parameters, other_extra_parameters)
  /\ RhsFrame

\* RBParameters q(std::move(*this)) or q = std::move(*this), q being another
\* instance: seen from *this.
moved_from ==
  /\ Idle
  /\ GiveUp("moved from")
  /\ RhsFrame

Next ==
  \/ Return
  \/ clear
  \/ \E param_name \in Names : call_has_value(param_name)
  \/ \E param_name \in Names : call_has_extra_value(param_name)
  \/ \E param_name \in Names : call_get_value(param_name)
  \/ \E param_name \in Names, default_val \in Values :
       call_get_value_or(param_name, default_val)
  \/ \E param_name \in Names, value \in Values : set_value(param_name, value)
  \/ \E param_name \in Names : call_get_extra_value(param_name)
  \/ \E param_name \in Names, default_val \in Values :
       call_get_extra_value_or(param_name, default_val)
  \/ \E param_name \in ExtraNames, value \in Values :
       set_extra_value(param_name, value)
  \/ call_n_parameters
  \/ \E param_name \in Names : erase_parameter(param_name)
  \/ \E param_name \in Names : erase_extra_parameter(param_name)
  \/ iterate
  \/ iterate_extra
  \/ \E other_parameters \in SourceMaps, other_extra_parameters \in SourceExtraMaps :
       copy_assign(other_parameters, other_extra_parameters)
  \/ \E other_parameters \in SourceMaps, other_extra_parameters \in SourceExtraMaps :
       move_assign(other_parameters, other_extra_parameters)
  \/ moved_from

Spec == Init /\ [][Next]_vars

-----------------------------------------------------------------------------
(* Two instances, *this and rhs, their comparison and the assignments      *)
(* between them.  The second instance runs the same member functions on    *)
(* its own two maps.  No history is kept here.                             *)

InitEq ==
  /\ DefaultConstructed
  /\ rhs_parameters = <<>>
  /\ rhs_extra_parameters = <<>>
  /\ history = FALSE
  /\ set_names = {}
  /\ live_parameters = EmptyLog
  /\ live_extra_parameters = EmptyLog

\* rhs.set_value(param_name, value)
rhs_set_value(param_name, value) ==
  /\ Idle
  /\ rhs_parameters' = MapSubscriptAssign(rhs_parameters, param_name, value)
  /\ call' = Returned("rhs.set_value", param_name, value, 0, FALSE, FALSE, <<>>)
  /\ UNCHANGED rhs_extra_parameters
  /\ ThisFrame /\ LogFrame

\* rhs.set_extra_value(param_name, value)
rhs_set_extra_value(param_name, value) ==
  /\ Idle
  /\ rhs_extra_parameters' = MapSubscriptAssign(rhs_extra_parameters, param_name, value)
  /\ call' = Returned("rhs.set_extra_value", param_name, value, 0, FALSE, FALSE, <<>>)
  /\ UNCHANGED rhs_parameters
  /\ ThisFrame /\ LogFrame

\* rhs.erase_parameter(param_name)
rhs_erase_parameter(param_name) ==
  /\ Idle
  /\ rhs_parameters' = MapErase(rhs_parameters, param_name)
  /\ call' = Returned("rhs.erase_parameter", param_name, 0,
                      MapSize(rhs_parameters) - MapSize(rhs_parameters'),
                      FALSE, FALSE, <<>>)
  /\ UNCHANGED rhs_extra_parameters
  /\ ThisFrame /\ LogFrame

\* *this = std::move(rhs)
move_assign_from_rhs ==
  /\ Idle
  /\ TakeOver("operator=(move)", rhs_parameters, rhs_extra_parameters)
  /\ rhs_parameters' = <<>>
  /\ rhs_extra_parameters' = <<>>

\* rhs = *this
rhs_copy_assign ==
  /\ Idle
  /\ rhs_parameters' = _parameters
  /\ rhs_extra_parameters' = _extra_parameters
  /\ call' = Returned("rhs.operator=(copy)", NoName, 0, 0, FALSE, FALSE, _parameters)
  /\ ThisFrame /\ LogFrame

\* rhs = std::move(*this)
rhs_move_assign ==
  /\ Idle
  /\ rhs_parameters' = _parameters
  /\ rhs_extra_parameters' = _extra_parameters
  /\ GiveUp("rhs.operator=(move)")

call_operator_eq ==
  /\ Idle
  /\ call' = Returned("operator==", NoName, 0, 0, operator_eq, FALSE, <<>>)
  /\ ThisFrame /\ RhsFrame /\ LogFrame

call_operator_ne ==
  /\ Idle
  /\ call' = Returned("operator!=", NoName, 0, 0, operator_ne, FALSE, <<>>)
  /\ ThisFrame /\ RhsFrame /\ LogFrame

NextEq ==
  \/ Return
  \/ \E param_name \in Names, value \in Values : set_value(param_name, value)
  \/ \E param_name \in EqExtraNames, value \in Values :
       set_extra_value(param_name, value)
  \/ \E param_name \in Names : erase_parameter(param_name)
  \/ \E param_name \in RhsNames, value \in Values : rhs_set_value(param_name, value)
  \/ \E param_name \in EqExtraNames, value \in Values :
       rhs_set_extra_value(param_name, value)
  \/ \E param_name \in RhsNames : rhs_erase_parameter(param_name)
  \/ copy_assign(rhs_parameters, rhs_extra_parameters)
  \/ move_assign_from_rhs
  \/ rhs_copy_assign
  \/ rhs_move_assign
  \/ call_operator_eq
  \/ call_operator_ne

SpecEq == InitEq /\ [][NextEq]_vars

-----------------------------------------------------------------------------
(* The contents of a map seen as a set, independently of how it is searched *)

Keys(m) == {m[i].first : i \in 1..Len(m)}

Pairs(m) == {<<m[i].first, m[i].second>> : i \in 1..Len(m)}

\* The value map m holds for name k, a key of m.
Stored(m, k) == m[CHOOSE i \in 1..Len(m) : m[i].first = k].second

\* The names a log holds a value for, and the (name, value) pairs it holds.
Live(log) == {n \in Names : log[n] # NotSet}

LivePairs(log) == {<<n, log[n]>> : n \in Live(log)}

\* The calls that replace both maps of *this as a whole.
WholeObjectOps == {"operator=(copy)", "operator=(move)", "moved from"}

-----------------------------------------------------------------------------
(* Properties *)

\* C1: get_value(name) returns the value of the most recent set_value for
\* that name, as long as nothing erased or overwrote it since; get_extra_value
\* does the same for set_extra_value.
C1_SetGetRoundTrip ==
  /\ \A n \in Names :
       live_parameters[n] # NotSet =>
         ~get_value_throws(n) /\ get_value(n) = live_parameters[n]
  /\ \A n \in Names :
       live_extra_parameters[n] # NotSet =>
         ~get_extra_value_throws(n) /\ get_extra_value(n) = live_extra_parameters[n]
  /\ call.op = "set_value" =>
       call.name \in set_names /\ live_parameters[call.name] = call.val
  /\ call.op = "set_extra_value" => live_extra_parameters[call.name] = call.val
  /\ call.op = "get_value" /\ live_parameters[call.name] # NotSet =>
       ~call.threw /\ call.ret = live_parameters[call.name]
  /\ call.op = "get_extra_value" /\ live_extra_parameters[call.name] # NotSet =>
       ~call.threw /\ call.ret = live_extra_parameters[call.name]

\* get_value("aa") returns the 1 last set for it, with "a" set to NaN in the
\* same map and "aa" holding 0 in the extra map.
C1_Witness ==
  /\ call.op = "get_value" /\ call.name = <<1, 1>> /\ ~call.threw /\ call.ret = 1
  /\ set_names = {<<1>>, <<1, 1>>}
  /\ live_parameters[<<1, 1>>] = 1 /\ live_parameters[<<1>>] = NaN
  /\ live_extra_parameters[<<1, 1>>] = 0

\* C2: the strict get_value / get_extra_value throws exactly when the name is
\* not a key of its map, and then leaves both maps as they were; no other
\* call throws.
C2_MissingParameterError ==
  /\ [](/\ call.op = "get_value" => (call.threw <=> call.name \notin Keys(_parameters))
        /\ call.op = "get_extra_value" =>
             (call.threw <=> call.name \notin Keys(_extra_parameters))
        /\ call.threw => call.op \in {"get_value", "get_extra_value"})
  /\ [][call'.threw => UNCHANGED <<_parameters, _extra_parameters>>]_vars

\* get_value("a") threw on a non-empty primary map although "a" is an extra
\* parameter.
C2_Witness ==
  /\ call.op = "get_value" /\ call.name = <<1>> /\ call.threw
  /\ _parameters # <<>>
  /\ <<1>> \in Keys(_extra_parameters)

\* C3: get_value(name, default_val) returns the stored value when name is a
\* key of the primary map and default_val otherwise, never throws, and changes
\* neither map (it does not insert name).
C3_DefaultingGet ==
  /\ [](call.op = "get_value(default)" =>
          /\ ~call.threw
          /\ ~has_value(call.name) => call.ret = call.val
          /\ call.name \notin Keys(_parameters) => call.ret = call.val
          /\ call.name \in Keys(_parameters) =>
               call.ret = Stored(_parameters, call.name))
  /\ [][call'.op = "get_value(default)" =>
          UNCHANGED <<_parameters, _extra_parameters>>]_vars

\* get_value("aa", 0) returned the stored 1, not the default 0.
C3_Witness ==
  /\ call.op = "get_value(default)" /\ call.name = <<1, 1>>
  /\ call.val = 0 /\ call.ret = 1
  /\ <<(<<1, 1>>), 1>> \in Pairs(_parameters)

\* C4 as stated: n_parameters() equals the number of names set via set_value
\* and not subsequently erased.
C4_CountsNamesSetMinusErased ==
  call.op = "n_parameters" => call.ret = Cardinality(set_names)

\* C4 amended: n_parameters() equals the number of distinct names the
\* instance was given by its constructor, by an assignment or by set_value,
\* minus those subsequently removed; setting a name twice counts once, and
\* the extra map does not count.
C4_CountsLiveNames ==
  /\ n_parameters = Cardinality(Live(live_parameters))
  /\ call.op = "n_parameters" => call.ret = Cardinality(Live(live_parameters))

\* n_parameters() returned 2: one name from the constructor or an
\* assignment, one from set_value, while the extra map holds one entry.
C4_Witness ==
  /\ call.op = "n_parameters" /\ call.ret = 2
  /\ Cardinality(set_names) = 1
  /\ Cardinality(Live(live_parameters)) = 2
  /\ Len(_extra_parameters) = 1

\* C5 as stated: *this == rhs exactly when the two primary maps hold the same
\* set of (name, value) pairs; != is the negation.
C5_EqualIffSamePairs ==
  /\ operator_eq <=> Pairs(_parameters) = Pairs(rhs_parameters)
  /\ operator_ne <=> ~operator_eq

\* C5 amended: *this == rhs exactly when the two primary maps hold the same
\* names and, for each name, values that operator== of Real finds equal (a
\* map that holds a NaN equals no map, itself included), whatever the
\* insertion order and whatever the extra maps hold; != is the negation.
C5_EqualIffSameNamesEqualValues ==
  LET same == /\ Keys(_parameters) = Keys(rhs_parameters)
              /\ \A k \in Keys(_parameters) :
                   RealEq(Stored(_parameters, k), Stored(rhs_parameters, k))
  IN  /\ operator_eq <=> same
      /\ operator_ne <=> ~same
      /\ call.op = "operator==" => (call.flag <=> same)
      /\ call.op = "operator!=" => (call.flag <=> ~same)

\* == returned true for two instances with two parameters each and
\* different extra maps.
C5_Witness ==
  /\ call.op = "operator==" /\ call.flag
  /\ Len(_parameters) = 2 /\ Len(rhs_parameters) = 2
  /\ _extra_parameters # rhs_extra_parameters

\* C6: has_value(name) is true exactly when name is a key of the primary map
\* (has_extra_value: of the extra map); in particular true right after
\* set_value(name, v) and false right after erase_parameter(name).
C6_HasValueIsMembership ==
  /\ \A n \in Names : has_value(n) <=> n \in Keys(_parameters)
  /\ \A n \in Names : has_extra_value(n) <=> n \in Keys(_extra_parameters)
  /\ call.op = "set_value" => has_value(call.name)
  /\ call.op = "erase_parameter" => ~has_value(call.name)
  /\ call.op = "set_extra_value" => has_extra_value(call.name)
  /\ call.op = "erase_extra_parameter" => ~has_extra_value(call.name)
  /\ call.op = "has_value" => (call.flag <=> call.name \in Keys(_parameters))
  /\ call.op = "has_extra_value" =>
       (call.flag <=> call.name \in Keys(_extra_parameters))

\* erase_parameter("a") removed "a" from a map that still holds "aa", while
\* "a" stays an extra parameter.
C6_Witness ==
  /\ call.op = "erase_parameter" /\ call.name = <<1>> /\ call.ret = 1
  /\ ~has_value(<<1>>) /\ has_value(<<1, 1>>)
  /\ has_extra_value(<<1>>)

\* C7: erase_parameter(name) does not throw; with name absent it leaves both
\* maps unchanged; with name present it removes that entry only.
\* erase_extra_parameter does the same on the extra map.
C7_EraseFrame ==
  [][/\ Idle /\ call'.op = "erase_parameter" =>
          /\ ~call'.threw
          /\ _extra_parameters' = _extra_parameters
          /\ call'.name \notin Keys(_parameters) => _parameters' = _parameters
          /\ Pairs(_parameters') =
               {p \in Pairs(_parameters) : p[1] # call'.name}
          /\ Len(_parameters') = Cardinality(Pairs(_parameters'))
     /\ Idle /\ call'.op = "erase_extra_parameter" =>
          /\ ~call'.threw
          /\ _parameters' = _parameters
          /\ call'.name \notin Keys(_extra_parameters) =>
               _extra_parameters' = _extra_parameters
          /\ Pairs(_extra_parameters') =
               {p \in Pairs(_extra_parameters) : p[1] # call'.name}
          /\ Len(_extra_parameters') = Cardinality(Pairs(_extra_parameters'))
    ]_vars

\* erase_parameter("a") removed nothing from a primary map that holds other
\* names, "a" being an extra parameter only.
C7_Witness ==
  /\ call.op = "erase_parameter" /\ call.name = <<1>> /\ call.ret = 0
  /\ Len(_parameters) = 2
  /\ has_extra_value(<<1>>)

\* C8: an instance constructed from a map holds that map as its primary
\* parameters and no extra parameters; a default-constructed one holds none.
C8_Construction ==
  /\ call.op = "RBParameters(map)" =>
       /\ \A i \in 1..Len(call.items) :
            /\ ~get_value_throws(call.items[i].first)
            /\ get_value(call.items[i].first) = call.items[i].second
       /\ Keys(_parameters) = Keys(call.items)
       /\ n_parameters = Cardinality(Keys(call.items))
       /\ \A k \in Names : ~has_extra_value(k)
       /\ \A k \in Names, d \in Values : get_extra_value_or(k, d) = d
       /\ _extra_parameters = <<>>
  /\ call.op = "RBParameters()" =>
       /\ n_parameters = 0
       /\ _parameters = <<>> /\ _extra_parameters = <<>>
       /\ \A k \in Names : ~has_value(k) /\ ~has_extra_value(k)

\* An instance just constructed from a map of all three names.
C8_Witness ==
  /\ call.op = "RBParameters(map)"
  /\ Len(call.items) = 3
  /\ get_value(<<1, 1>>) = 1 /\ get_value(<<2>>) = NaN

\* C9: a traversal begin()..end() visits the live primary entries, each name
\* once, in ascending lexicographic order of the names; extra_begin()..
\* extra_end() does the same for the extra entries.
C9_OrderedIteration ==
  /\ call.op = "begin..end" =>
       /\ \A i \in 1..(Len(call.items) - 1) :
            LexLess(call.items[i].first, call.items[i + 1].first)
       /\ Cardinality(Keys(call.items)) = Len(call.items)
       /\ Pairs(call.items) = LivePairs(live_parameters)
  /\ call.op = "extra_begin..extra_end" =>
       /\ \A i \in 1..(Len(call.items) - 1) :
            LexLess(call.items[i].first, call.items[i + 1].first)
       /\ Cardinality(Keys(call.items)) = Len(call.items)
       /\ Pairs(call.items) = LivePairs(live_extra_parameters)

\* A traversal visited "a", "aa", "b" in this order; "b" was not given by
\* set_value, the others were, and the extra map differs.
C9_Witness ==
  /\ call.op = "begin..end" /\ Len(call.items) = 3
  /\ call.items[1].first = <<1>> /\ call.items[2].first = <<1, 1>>
  /\ call.items[3].first = <<2>>
  /\ set_names = {<<1>>, <<1, 1>>}
  /\ Len(_extra_parameters) = 1

\* C10 as stated: set_value and erase_parameter leave the extra map
\* unchanged, set_extra_value and erase_extra_parameter leave the primary map
\* unchanged, and only clear() changes both maps in one call, emptying both.
C10_OnlyClearChangesBoth ==
  [][/\ call'.op \in {"set_value", "erase_parameter"} =>
          _extra_parameters' = _extra_parameters
     /\ call'.op \in {"set_extra_value", "erase_extra_parameter"} =>
          _parameters' = _parameters
     /\ _parameters' # _parameters /\ _extra_parameters' # _extra_parameters =>
          call'.op = "clear"
     /\ call'.op = "clear" => _parameters' = <<>> /\ _extra_parameters' = <<>>
    ]_vars

\* C10 amended: as stated, except that the calls which change both maps at
\* once are clear(), which empties both, and the whole-object operations
\* (copy and move assignment, being moved from).
C10_SeparateNamespaces ==
  [][/\ call'.op \in {"set_value", "erase_parameter"} =>
          _extra_parameters' = _extra_parameters
     /\ call'.op \in {"set_extra_value", "erase_extra_parameter"} =>
          _parameters' = _parameters
     /\ _parameters' # _parameters /\ _extra_parameters' # _extra_parameters =>
          call'.op \in {"clear"} \cup WholeObjectOps
     /\ call'.op = "clear" => _parameters' = <<>> /\ _extra_parameters' = <<>>
    ]_vars

\* "a" holds 0 as a primary parameter and, just set, 1 as an extra one.
C10_Witness ==
  /\ call.op = "set_extra_value" /\ call.name = <<1>> /\ call.val = 1
  /\ <<(<<1>>), 0>> \in Pairs(_parameters)
  /\ <<(<<1>>), 1>> \in Pairs(_extra_parameters)

====
